---------------------------- MODULE Spec2Model ----------------------------
(***************************************************************************)
(* A model of src/app.py, the conversational shopping assistant.           *)
(*                                                                         *)
(* Text is a sequence of characters (one-character strings; an accented    *)
(* letter is one character, written by its name: "agrave", "eacute").      *)
(* A Python float is a fixed-point number of thousandths (12.99 is 12990): *)
(* every number of the model has at most three fraction digits.            *)
(* A JSON / Python value is a record [t, s, n, l]: t its type ("null",     *)
(* "str", "num", "list", "absent" for a missing key), s its text, n its    *)
(* number in thousandths, l its elements.                                  *)
(***************************************************************************)
EXTENDS Integers, Sequences, FiniteSets, TLC

VARIABLES
    pc,              \* where the script run of main() stands
    has_session,     \* 'conversation' in st.session_state
    conversation,    \* st.session_state.conversation
    turn_origin,     \* per turn, who appended it: "welcome", "user", "reply", "summary"
    user_context,    \* st.session_state.user_context
    products_shown,  \* st.session_state.get('products_shown', False)
    user_input,      \* what st.chat_input returns in this run (NoInput: None)
    reset_clicked,   \* what st.button returns in this run
    products,        \* the list fetch_amazon_products returned to this run
    idx,             \* the product the display loop of main() stands at
    cache,           \* the st.cache_data entries of fetch_amazon_products
    calls,           \* outbound calls since the last user message or reset click
    outcome,         \* what the external calls of the current handling returned
    search_origin,   \* the origin of the turn each fetch_amazon_products call came from
    events,          \* user events so far (submits and reset clicks)
    h_fn,            \* the pure function under test ("none" in the session model)
    h_in,            \* its input
    h_out,           \* its result
    h_done           \* whether it has been applied

main_vars == <<pc, has_session, conversation, turn_origin, user_context,
               products_shown, user_input, reset_clicked, products, idx, cache,
               calls, outcome, search_origin, events>>
harness_vars == <<h_fn, h_in, h_out, h_done>>
vars == <<pc, has_session, conversation, turn_origin, user_context,
          products_shown, user_input, reset_clicked, products, idx, cache,
          calls, outcome, search_origin, events, h_fn, h_in, h_out, h_done>>

-----------------------------------------------------------------------------
(* Characters and text: str.lower, str.strip, \s, \d.                       *)

UpperChars == <<"A","B","C","D","E","F","G","H","I","J","K","L","M","N","O","P",
                "Q","R","S","T","U","V","W","X","Y","Z","Eacute","Agrave">>
LowerChars == <<"a","b","c","d","e","f","g","h","i","j","k","l","m","n","o","p",
                "q","r","s","t","u","v","w","x","y","z","eacute","agrave">>

LowerChar(c) ==
    IF \E i \in 1..Len(UpperChars) : UpperChars[i] = c
    THEN LowerChars[CHOOSE i \in 1..Len(UpperChars) : UpperChars[i] = c]
    ELSE c

\* str.lower()
Lower(s) == [i \in 1..Len(s) |-> LowerChar(s[i])]

\* \s of the re module
IsSpace(c) == c \in {" ", "\n", "\t"}

\* \d of the re module
IsDigit(c) == c \in {"0","1","2","3","4","5","6","7","8","9"}

DigitValue(c) ==
    CASE c = "0" -> 0 [] c = "1" -> 1 [] c = "2" -> 2 [] c = "3" -> 3
      [] c = "4" -> 4 [] c = "5" -> 5 [] c = "6" -> 6 [] c = "7" -> 7
      [] c = "8" -> 8 [] c = "9" -> 9

DigitChars == <<"0","1","2","3","4","5","6","7","8","9">>

\* The literal lit stands in s at position i.
MatchAt(s, i, lit) ==
    /\ i >= 1
    /\ i + Len(lit) - 1 <= Len(s)
    /\ \A j \in 1..Len(lit) : s[i + j - 1] = lit[j]

\* The one element of a one-element set. A value is computed once by binding
\* it: Only({F(v) : v \in {e}}) is F(e).
Only(S) == CHOOSE x \in S : TRUE

\* The least and the greatest element of a non-empty set of integers.
Least(S) == Only({CHOOSE x \in T : \A y \in T : x <= y : T \in {S}})
Greatest(S) == Only({CHOOSE x \in T : \A y \in T : y <= x : T \in {S}})

\* The length of the longest run of spaces (a greedy \s*) and of digits (a
\* greedy \d*) of s from position i on.
RECURSIVE SpaceRun(_, _)
SpaceRun(s, i) ==
    IF i >= 1 /\ i <= Len(s) /\ IsSpace(s[i]) THEN 1 + SpaceRun(s, i + 1) ELSE 0

RECURSIVE DigitRun(_, _)
DigitRun(s, i) ==
    IF i >= 1 /\ i <= Len(s) /\ IsDigit(s[i]) THEN 1 + DigitRun(s, i + 1) ELSE 0

\* str.strip()
Strip(s) ==
    Only({IF keep = {} THEN <<>> ELSE SubSeq(s, Least(keep), Greatest(keep)) :
          keep \in {{i \in 1..Len(s) : ~IsSpace(s[i])}}})

\* int() / float() of a run of digits, as an integer
RECURSIVE DigitsToNat(_)
DigitsToNat(ds) ==
    IF ds = <<>> THEN 0
    ELSE 10 * DigitsToNat(SubSeq(ds, 1, Len(ds) - 1)) + DigitValue(ds[Len(ds)])

\* str() of a non-negative integer
RECURSIVE NatToChars(_)
NatToChars(n) ==
    IF n < 10 THEN <<DigitChars[n + 1]>>
    ELSE NatToChars(n \div 10) \o <<DigitChars[(n % 10) + 1]>>

-----------------------------------------------------------------------------
(* Python / JSON values.                                                    *)

PyNone == [t |-> "null", s |-> <<>>, n |-> 0, l |-> <<>>]
Absent == [t |-> "absent", s |-> <<>>, n |-> 0, l |-> <<>>]
PyStr(chars) == [t |-> "str", s |-> chars, n |-> 0, l |-> <<>>]
\* A number: n is its value in thousandths, s is what str() prints for it.
PyNum(milli, repr) == [t |-> "num", s |-> repr, n |-> milli, l |-> <<>>]
PyList(elems) == [t |-> "list", s |-> <<>>, n |-> 0, l |-> elems]

\* bool(v)
Truthy(v) ==
    CASE v.t = "null" -> FALSE
      [] v.t = "absent" -> FALSE
      [] v.t = "str" -> v.s /= <<>>
      [] v.t = "num" -> v.n /= 0
      [] v.t = "list" -> v.l /= <<>>

\* str(v)
StrOf(v) ==
    CASE v.t = "null" -> <<"N","o","n","e">>
      [] v.t = "str" -> v.s
      [] v.t = "num" -> v.s
      [] OTHER -> <<"[","]">>

\* The number of thousandths in a unit.
Milli == 10 * 10 * 10

-----------------------------------------------------------------------------
(* extract_price                                                            *)

IsPriceChar(c) == IsDigit(c) \/ c = "." \/ c = ","

\* re.sub(r'[^\d.,]', '', s) is SelectSeq(s, IsPriceChar).
\* price_clean.replace(',', '.')
ReplaceCommas(s) == [i \in 1..Len(s) |-> IF s[i] = "," THEN "." ELSE s[i]]

\* re.findall(r'\d+\.?\d*', s)[0], or <<>> when nothing matches: the leftmost
\* run of digits, a period if one follows, and the digits after it.
NumberAt(s, i) ==
    Only({Only({SubSeq(s, i, i + d1 + dot + (IF dot = 1 THEN DigitRun(s, i + d1 + 1) ELSE 0) - 1) :
                dot \in {IF i + d1 <= Len(s) /\ s[i + d1] = "." THEN 1 ELSE 0}}) :
          d1 \in {DigitRun(s, i)}})

FirstNumber(s) ==
    Only({IF starts = {} THEN <<>> ELSE NumberAt(s, Least(starts)) :
          starts \in {{i \in 1..Len(s) : IsDigit(s[i])}}})

\* float() of a text of the form \d+\.?\d*, in thousandths.
ParseFloat(s) ==
    Only({DigitsToNat(SubSeq(s, 1, d1)) * Milli
            + DigitsToNat(SubSeq(SubSeq(s, d1 + 2, Len(s)) \o <<"0","0","0">>, 1, 3)) :
          d1 \in {DigitRun(s, 1)}})

\* The body of extract_price once price_str is a text.
PriceOfText(text) ==
    Only({IF numbers /= <<>> THEN ParseFloat(numbers) ELSE 0 :
          numbers \in {FirstNumber(ReplaceCommas(SelectSeq(text, IsPriceChar)))}})

extract_price(price_str) ==
    IF ~Truthy(price_str) THEN 0
    ELSE PriceOfText(StrOf(IF price_str.t = "list" THEN price_str.l[1] ELSE price_str))

-----------------------------------------------------------------------------
(* extract_search_intent                                                    *)

\* A conversation turn, {"role": ..., "content": ...}.
Turn(role, content) == [role |-> role, content |-> content]

\* The words that end the query: \s+entre | \s+dans | \s+à | \s+pour.
Terminators == <<<<"e","n","t","r","e">>, <<"d","a","n","s">>, <<"agrave">>, <<"p","o","u","r">>>>

\* (?:\s+entre|\s+dans|\s+à|\s+pour|\.|$) matches at position q of s. The $ of
\* re (no MULTILINE) matches at the end and before a newline that ends s.
TermAt(s, q) ==
    \/ \E r \in {SpaceRun(s, q)} :
          r >= 1 /\ \E k \in 1..Len(Terminators) : MatchAt(s, q + r, Terminators[k])
    \/ q <= Len(s) /\ s[q] = "."
    \/ q = Len(s) + 1
    \/ q = Len(s) /\ s[q] = "\n"

\* (.+?) from position p, tried at length n and longer: the length of the
\* shortest run of characters other than a newline that a terminator follows;
\* 0 when there is none.
RECURSIVE LazyGroupFrom(_, _, _)
LazyGroupFrom(s, p, n) ==
    IF p + n - 1 > Len(s) THEN 0
    ELSE IF s[p + n - 1] = "\n" THEN 0
    ELSE IF TermAt(s, p + n) THEN n
    ELSE LazyGroupFrom(s, p, n + 1)

LazyGroup(s, p) == LazyGroupFrom(s, p, 1)

\* \s+(.+?)(?:...) from position a: the greedy \s+ takes the longest run of
\* spaces that lets the rest match. The group's <<start, length>>, or <<0, 0>>.
GroupAfter(s, a) ==
    Only({IF ks = {} THEN <<0, 0>>
          ELSE Only({<<a + k, LazyGroup(s, a + k)>> : k \in {Greatest(ks)}}) :
          ks \in {{k \in 1..SpaceRun(s, a) : LazyGroup(s, a + k) > 0}}})

\* The pattern  trigger s? \s+(.+?)(?:...)  tried at position i of s: the
\* optional s is taken first when it is there.
TryPatternAt(s, i, trigger, optional_s) ==
    IF ~MatchAt(s, i, trigger) THEN <<0, 0>>
    ELSE IF optional_s /\ i + Len(trigger) <= Len(s) /\ s[i + Len(trigger)] = "s"
         THEN Only({IF with_s /= <<0, 0>> THEN with_s ELSE GroupAfter(s, i + Len(trigger)) :
                    with_s \in {GroupAfter(s, i + Len(trigger) + 1)}})
         ELSE GroupAfter(s, i + Len(trigger))

\* re.search(pattern, s): the leftmost match; group(1), or "no match".
SearchPattern(s, trigger, optional_s) ==
    Only({IF hits = {} THEN [found |-> FALSE, group |-> <<>>]
          ELSE Only({[found |-> TRUE, group |-> SubSeq(s, g[1], g[1] + g[2] - 1)] :
                     g \in {TryPatternAt(s, Least(hits), trigger, optional_s)}}) :
          hits \in {{i \in 1..Len(s) : TryPatternAt(s, i, trigger, optional_s) /= <<0, 0>>}}})

\* search_patterns, in the order the loop tries them.
search_patterns ==
    <<[trigger |-> <<"c","h","e","r","c","h","o","n">>, optional_s |-> TRUE],
      [trigger |-> <<"r","e","c","h","e","r","c","h","e">>, optional_s |-> FALSE],
      [trigger |-> <<"r","e","g","a","r","d","o","n">>, optional_s |-> TRUE]>>

\* The connectors of the budget phrase, (?:et|à|-).
BudgetConnectors == <<<<"e","t">>, <<"agrave">>, <<"-">>>>

\* (\d+) at position b of s, the end of the budget phrase: the second group.
BudgetHigh(s, lo, b) ==
    Only({IF d2 >= 1 THEN [found |-> TRUE, lo |-> lo, hi |-> SubSeq(s, b, b + d2 - 1)]
          ELSE [found |-> FALSE, lo |-> <<>>, hi |-> <<>>] :
          d2 \in {DigitRun(s, b)}})

\* (?:et|à|-)\s*(\d+) at position c of s: the first connector that stands there.
BudgetConnector(s, lo, c) ==
    Only({IF cs = {} THEN [found |-> FALSE, lo |-> <<>>, hi |-> <<>>]
          ELSE Only({BudgetHigh(s, lo, b + SpaceRun(s, b)) :
                     b \in {c + Len(BudgetConnectors[Least(cs)])}}) :
          cs \in {{k \in 1..Len(BudgetConnectors) : MatchAt(s, c, BudgetConnectors[k])}}})

\* (\d+)\s*(?:et|à|-)\s*(\d+) at position p of s.
BudgetLow(s, p) ==
    Only({IF d1 >= 1
          THEN BudgetConnector(s, SubSeq(s, p, p + d1 - 1), p + d1 + SpaceRun(s, p + d1))
          ELSE [found |-> FALSE, lo |-> <<>>, hi |-> <<>>] :
          d1 \in {DigitRun(s, p)}})

\* entre\s+(\d+)\s*(?:et|à|-)\s*(\d+) tried at position i of s: the two groups.
BudgetAt(s, i) ==
    IF ~MatchAt(s, i, <<"e","n","t","r","e">>) THEN [found |-> FALSE, lo |-> <<>>, hi |-> <<>>]
    ELSE Only({IF r1 >= 1 THEN BudgetLow(s, i + 5 + r1)
               ELSE [found |-> FALSE, lo |-> <<>>, hi |-> <<>>] :
               r1 \in {SpaceRun(s, i + 5)}})

\* re.search(r'entre\s+(\d+)\s*(?:et|à|-)\s*(\d+)', s)
budget_match(s) ==
    Only({IF hits = {} THEN [found |-> FALSE, lo |-> <<>>, hi |-> <<>>]
          ELSE BudgetAt(s, Least(hits)) :
          hits \in {{i \in 1..Len(s) : BudgetAt(s, i).found}}})

\* The default budget: 0 to 1000.
DefaultMinPrice == 0
DefaultMaxPrice == 1000

\* None, and an intent {"query", "min_price", "max_price"} (prices in thousandths).
NoIntent == [some |-> FALSE, query |-> <<>>, min_price |-> 0, max_price |-> 0]
Intent(q, lo, hi) == [some |-> TRUE, query |-> q, min_price |-> lo, max_price |-> hi]

\* The body of the loop with max_price read from the first group of the budget.
IntentOf_SameGroup(last_lower, group) ==
    Only({Intent(Strip(group),
                 IF b.found THEN DigitsToNat(b.lo) * Milli ELSE DefaultMinPrice * Milli,
                 IF b.found THEN DigitsToNat(b.lo) * Milli ELSE DefaultMaxPrice * Milli) :
          b \in {budget_match(last_lower)}})

\* The body of the loop for the pattern that matched.
IntentOf(last_lower, group) ==
    Only({Intent(Strip(group),
                 IF b.found THEN DigitsToNat(b.lo) * Milli ELSE DefaultMinPrice * Milli,
                 IF b.found THEN DigitsToNat(b.hi) * Milli ELSE DefaultMaxPrice * Milli) :
          b \in {budget_match(last_lower)}})

\* The loop over search_patterns, on last_message.lower().
FirstPatternIntent(low) ==
    Only({IF found = {} THEN NoIntent
          ELSE Only({IntentOf(low, SearchPattern(low, pat.trigger, pat.optional_s).group) :
                     pat \in {search_patterns[Least(found)]}}) :
          found \in {{k \in 1..Len(search_patterns) :
                         SearchPattern(low, search_patterns[k].trigger,
                                       search_patterns[k].optional_s).found}}})

\* extract_search_intent without the .lower() of the last message.
extract_search_intent_NoLower(conversation_history) ==
    IF conversation_history = <<>> THEN NoIntent
    ELSE Only({FirstPatternIntent(low) :
               low \in {conversation_history[Len(conversation_history)].content}})

extract_search_intent(conversation_history) ==
    IF conversation_history = <<>> THEN NoIntent
    ELSE Only({FirstPatternIntent(low) :
               low \in {Lower(conversation_history[Len(conversation_history)].content)}})

-----------------------------------------------------------------------------
(* fetch_amazon_products                                                    *)

\* dict.get(key, default) once the key's value v is looked up (Absent: no key).
Get(v, default) == IF v.t = "absent" THEN default ELSE v

\* An organic result of the API, with the fields the function reads. The
\* fields it copies through unread (link, snippet, image, delivery, prime) are
\* left out.
RawProduct(title, price_str, price, rating, ratings_total) ==
    [title |-> title, price_str |-> price_str, price |-> price,
     rating |-> rating, ratings_total |-> ratings_total]

\* product.get("price_str") or product.get("price", "0")
PriceField(product) ==
    IF Truthy(Get(product.price_str, PyNone)) THEN product.price_str
    ELSE Get(product.price, PyStr(<<"0">>))

\* rating.split()[0]: the first run of non-space characters; <<>> stands for
\* the IndexError of an empty split.
FirstToken(s) ==
    Only({IF starts = {} THEN <<>>
          ELSE Only({SubSeq(s, a, Least({j \in a..Len(s) : j = Len(s) \/ IsSpace(s[j + 1])})) :
                     a \in {Least(starts)}}) :
          starts \in {{i \in 1..Len(s) : ~IsSpace(s[i])}}})

\* Whether float() takes the token: digits, a period and digits. (The signs,
\* exponents, inf and nan float() also takes are in no rating of the model.)
IsFloatText(tok) ==
    /\ tok /= <<>>
    /\ \E d1 \in {DigitRun(tok, 1)} :
          \/ d1 = Len(tok)
          \/ /\ d1 < Len(tok) /\ tok[d1 + 1] = "."
             /\ d1 + 1 + DigitRun(tok, d1 + 2) = Len(tok)
             /\ Len(tok) > 1

\* float() of such a token, in thousandths.
FloatOfText(tok) ==
    Only({DigitsToNat(SubSeq(tok, 1, d1)) * Milli
            + DigitsToNat(SubSeq(SubSeq(tok, d1 + 2, Len(tok)) \o <<"0","0","0">>, 1, 3)) :
          d1 \in {DigitRun(tok, 1)}})

\* rating = product.get("rating", 0), and float(rating.split()[0]) or 0 when
\* it is a str; any other value is kept as it is.
NormalizeRating(v) ==
    Only({IF rating.t /= "str" THEN rating
          ELSE Only({IF IsFloatText(tok) THEN PyNum(FloatOfText(tok), tok)
                     ELSE PyNum(0, <<"0">>) :
                     tok \in {FirstToken(rating.s)}}) :
          rating \in {Get(v, PyNum(0, <<"0">>))}})

\* reviews_count = product.get("ratings_total", 0), and
\* int(re.sub(r'[^\d]', '', reviews_count) or 0) when it is a str.
NormalizeReviews(v) ==
    Only({IF reviews_count.t /= "str" THEN reviews_count
          ELSE Only({PyNum(DigitsToNat(digits) * Milli, IF digits = <<>> THEN <<"0">> ELSE digits) :
                     digits \in {SelectSeq(reviews_count.s, IsDigit)}}) :
          reviews_count \in {Get(v, PyNum(0, <<"0">>))}})

\* f"${price_val:.2f}" if price_val > 0 else "Prix non disponible". (No price
\* of the model lies halfway between two cents.)
FormatPrice(price_val) ==
    IF price_val > 0
    THEN Only({<<"$">> \o NatToChars(cents \div 100) \o <<".">>
                 \o <<DigitChars[((cents % 100) \div 10) + 1], DigitChars[(cents % 10) + 1]>> :
               cents \in {(price_val + 5) \div 10}})
    ELSE <<"P","r","i","x"," ","n","o","n"," ","d","i","s","p","o","n","i","b","l","e">>

\* The record products.append builds.
Product(raw, price_val) ==
    [title |-> raw.title, price |-> price_val, price_str |-> FormatPrice(price_val),
     rating |-> NormalizeRating(raw.rating),
     reviews_count |-> NormalizeReviews(raw.ratings_total)]

\* The loop over data["organic_results"]: the products within the price band.
RECURSIVE InBandProducts(_, _, _)
InBandProducts(results, min_price, max_price) ==
    IF results = <<>> THEN <<>>
    ELSE Only({(IF min_price <= price_val /\ price_val <= max_price
                THEN <<Product(Head(results), price_val)>> ELSE <<>>)
               \o InBandProducts(Tail(results), min_price, max_price) :
               price_val \in {extract_price(PriceField(Head(results)))}})

\* a == b and a < b of Python on the values a sort key holds (a number or
\* None); a < b of None and a number is a TypeError.
PyEq(a, b) == a.t = b.t /\ a.n = b.n
PyComparable(a, b) == a.t = "num" /\ b.t = "num"

\* The sort key, (x["rating"], x["reviews_count"]), and the comparison of two
\* keys as tuples: the first differing component decides.
KeyRaises(x, y) ==
    IF ~PyEq(x.rating, y.rating) THEN ~PyComparable(x.rating, y.rating)
    ELSE ~PyEq(x.reviews_count, y.reviews_count)
         /\ ~PyComparable(x.reviews_count, y.reviews_count)

KeyLess(x, y) ==
    IF ~PyEq(x.rating, y.rating) THEN x.rating.n < y.rating.n
    ELSE x.reviews_count.n < y.reviews_count.n

\* list.sort raises the TypeError of a comparison when two keys of the list
\* cannot be ordered.
SortRaises(ps) ==
    \E i \in 1..Len(ps) : \E j \in (i + 1)..Len(ps) : KeyRaises(ps[i], ps[j])

\* x inserted in the sorted list: after the elements that are not less than it.
RECURSIVE InsertDesc(_, _)
InsertDesc(sorted, x) ==
    IF sorted /= <<>> /\ KeyLess(sorted[Len(sorted)], x)
    THEN InsertDesc(SubSeq(sorted, 1, Len(sorted) - 1), x) \o <<sorted[Len(sorted)]>>
    ELSE Append(sorted, x)

\* products.sort(key=..., reverse=True): a stable sort, descending.
RECURSIVE SortDesc(_)
SortDesc(ps) ==
    IF ps = <<>> THEN <<>>
    ELSE InsertDesc(SortDesc(SubSeq(ps, 1, Len(ps) - 1)), ps[Len(ps)])

\* products without the [:num_results].
Truncate_All(ps, num_results) == ps

\* products[:num_results]
Truncate(ps, num_results) ==
    IF Len(ps) <= num_results THEN ps ELSE SubSeq(ps, 1, num_results)

\* num_results: int = 4
DefaultNumResults == 4

\* A response of the search API: a failure of the request (a timeout, an HTTP
\* error, a body that is no JSON), or the organic_results of the JSON body.
SearchFailure == [ok |-> FALSE, organic_results |-> <<>>]
SearchResponse(results) == [ok |-> TRUE, organic_results |-> results]

\* fetch_amazon_products, given the response of requests.get: any exception of
\* the try block (the failed request, the TypeError of the sort) returns [].
fetch_amazon_products(response, min_price, max_price, num_results) ==
    IF ~response.ok THEN <<>>
    ELSE Only({IF SortRaises(ps) THEN <<>> ELSE Truncate(SortDesc(ps), num_results) :
               ps \in {InBandProducts(response.organic_results, min_price, max_price)}})

-----------------------------------------------------------------------------
(* Responses of the search API.                                             *)

Num(units, repr) == PyNum(units * Milli, repr)

\* Organic results with the heterogeneous fields the API sends: a price as a
\* text, a number, a list or not at all; a rating as a number, a text, null or
\* not at all; a review count as a number, a text, null or not at all.
RawA == RawProduct("A", Absent, PyStr(<<"1","2",",","9","9"," ","euro">>), PyNum(4500, <<"4",".","5">>), Num(120, <<"1","2","0">>))
RawB == RawProduct("B", PyStr(<<"$","2","5",".","0","0">>), Absent, PyStr(<<"4",".","7"," ","s","u","r"," ","5">>), PyStr(<<"1"," ","2","3","4"," ","a","v","i","s">>))
RawC == RawProduct("C", Absent, Num(80, <<"8","0">>), PyNum(4900, <<"4",".","9">>), Num(10, <<"1","0">>))
RawD == RawProduct("D", Absent, PyStr(<<"1","5"," ","euro">>), PyNone, Num(5, <<"5">>))
RawE == RawProduct("E", Absent, Absent, Absent, Absent)
RawF == RawProduct("F", PyStr(<<>>), PyStr(<<"2","0">>), PyStr(<<"n","/","a">>), PyStr(<<"a","u","c","u","n">>))
RawG == RawProduct("G", Absent, PyList(<<PyStr(<<"9",",","5","0"," ","euro">>)>>), PyNum(4500, <<"4",".","5">>), PyNone)
RawH == RawProduct("H", Absent, PyStr(<<"E","U","R"," ","3","0">>), PyNum(4500, <<"4",".","5">>), Num(120, <<"1","2","0">>))

RawProducts == {RawA, RawB, RawC, RawD, RawE, RawF, RawG, RawH}

\* Six results, four of them (A, B, F, H) between 10 and 50.
CannedSix == <<RawC, RawA, RawE, RawB, RawF, RawH>>
\* Six results with a number for every rating and count: six between 0 and
\* 1000, five between 10 and 100.
CannedAll == <<RawA, RawB, RawC, RawE, RawF, RawH>>

-----------------------------------------------------------------------------
(* The session model's variables while a pure function is under test, and   *)
(* the harness's while the session runs.                                    *)

NoInput == <<"None">>

HarnessIdle ==
    /\ h_fn = "none"
    /\ h_in = <<>>
    /\ h_out = <<>>
    /\ h_done = FALSE

-----------------------------------------------------------------------------
(* The external services, as main() sees them.                              *)

\* The reply of a chat completion: the request fails (any exception of the
\* try block), or response.choices[0].message.content comes back.
ChatFailure == [ok |-> FALSE, content |-> <<>>]
ChatReply(content) == [ok |-> TRUE, content |-> content]

\* return f"Désolé, j'ai un petit souci technique... Pouvez-vous répéter ? 😅"
FallbackReply ==
    <<"D","eacute","s","o","l","eacute",","," ","j","'","a","i"," ","u","n"," ","p","e","t","i","t"," ","s","o","u","c","i"," ","t","e","c","h","n","i","q","u","e",".",".","."," ","P","o","u","v","e","z","-","v","o","u","s"," ","r","eacute","p","eacute","t","e","r"," ","?"," ","emoji">>

\* chat_with_assistant (the definition in force: the second one), given the
\* reply of the completion.
chat_with_assistant(reply) ==
    IF reply.ok THEN Strip(reply.content) ELSE FallbackReply

\* return "Analyse en cours..."
AnalysisFallback == <<"A","n","a","l","y","s","e"," ","e","n"," ","c","o","u","r","s",".",".",".">>

\* analyze_product_conversational, given the reply of the completion.
analyze_product_conversational(reply) ==
    IF reply.ok THEN Strip(reply.content) ELSE AnalysisFallback

\* The keys and values of the user context; Unset: the key is not in the dict.
ContextKeys == {"budget", "usage"}
Unset == "unset"
EmptyContext == [k \in ContextKeys |-> Unset]

\* What json.loads makes of the completion's text: a dict (its items in
\* order), a list (of two-element lists, the pairs, and of other elements) or
\* a str.
JsonDict(items) == [t |-> "dict", items |-> items]
JsonList(items) == [t |-> "list", items |-> items]
JsonStr == [t |-> "str", items |-> <<>>]
Pair(k, v) == [pair |-> TRUE, k |-> k, v |-> v]
NotAPair == [pair |-> FALSE, k |-> Unset, v |-> Unset]

\* The reply of the context extraction: the request fails, or its text comes
\* back and, the fences stripped, json.loads parses it to a value or raises.
ContextFailure == [ok |-> FALSE, parses |-> FALSE, value |-> JsonDict(<<>>)]
ContextNotJson == [ok |-> TRUE, parses |-> FALSE, value |-> JsonDict(<<>>)]
ContextJson(value) == [ok |-> TRUE, parses |-> TRUE, value |-> value]

\* update_user_context, given the reply: json.loads(result), or {} on any
\* exception.
update_user_context(reply) ==
    IF reply.ok /\ reply.parses THEN reply.value ELSE JsonDict(<<>>)

\* if context_update: a non-empty dict or list, a non-empty str.
JsonTruthy(value) == value.t = "str" \/ value.items /= <<>>

\* dict.update(value): the pairs are set one after the other; an element that
\* is no pair (every character of a str is none) raises and leaves the pairs
\* set so far.
RECURSIVE SetItems(_, _)
SetItems(context, items) ==
    IF items = <<>> THEN [context |-> context, raised |-> FALSE]
    ELSE IF ~Head(items).pair THEN [context |-> context, raised |-> TRUE]
    ELSE SetItems([context EXCEPT ![Head(items).k] = Head(items).v], Tail(items))

\* A dict.update that replaces the dict by the pairs of value.
DictUpdate_Replace(context, value) ==
    IF value.t = "str" THEN [context |-> context, raised |-> TRUE]
    ELSE SetItems(EmptyContext, value.items)

DictUpdate(context, value) ==
    IF value.t = "str" THEN [context |-> context, raised |-> TRUE]
    ELSE SetItems(context, value.items)

-----------------------------------------------------------------------------
(* main(): one run of the script per user event, and per st.rerun().        *)

WelcomeMsg ==
    <<"\n"," "," "," "," "," "," "," "," ","S","a","l","u","t"," ","!"," ",
      "emoji"," ","J","e"," ","s","u","i","s"," ","A","l","e","x",","," ","v",
      "o","t","r","e"," ","c","o","n","s","e","i","l","l","e","r"," ","d","'",
      "a","c","h","a","t"," ","p","e","r","s","o","n","n","e","l",".","\n",
      " "," "," "," "," "," "," "," ","\n"," "," "," "," "," "," "," "," ",
      "J","e"," ","s","u","i","s"," ","l","agrave"," ","p","o","u","r"," ",
      "v","o","u","s"," ","a","i","d","e","r"," ","agrave"," ","t","r","o",
      "u","v","e","r"," ","e","x","a","c","t","e","m","e","n","t"," ","c","e",
      " ","q","u","'","i","l"," ","v","o","u","s"," ","f","a","u","t"," ","!",
      " ","\n"," "," "," "," "," "," "," "," ","\n"," "," "," "," "," "," ",
      " "," ","D","i","t","e","s","-","m","o","i"," ","s","i","m","p","l","e",
      "m","e","n","t"," ","c","e"," ","q","u","e"," ","v","o","u","s"," ","c",
      "h","e","r","c","h","e","z"," ","e","t"," ","p","a","r","l","o","n","s",
      "-","e","n"," ","e","n","s","e","m","b","l","e","."," ","\n"," "," ",
      " "," "," "," "," "," ","P","a","r"," ","e","x","e","m","p","l","e"," ",
      ":"," ","\"","J","e"," ","c","h","e","r","c","h","e"," ","u","n"," ",
      "a","s","p","i","r","a","t","e","u","r","\""," ","o","u"," ","\"","J",
      "'","a","i"," ","b","e","s","o","i","n"," ","d","'","u","n"," ","c","a",
      "s","q","u","e"," ","p","o","u","r"," ","l","e"," ","t","eacute","l",
      "eacute","t","r","a","v","a","i","l","\"","\n"," "," "," "," "," "," ",
      " "," ","\n"," "," "," "," "," "," "," "," ","Q","u","'","e","s","t",
      "-","c","e"," ","q","u","e"," ","j","e"," ","p","e","u","x"," ","v","o",
      "u","s"," ","a","i","d","e","r"," ","agrave"," ","t","r","o","u","v",
      "e","r"," ","a","u","j","o","u","r","d","'","h","u","i"," ","?"," ",
      "emoji","\n"," "," "," "," "," "," "," "," ">>

\* A conversation that keeps its last turn only.
AppendTurn_Overwrite(conv, role, content) == <<Turn(role, content)>>

\* conversation.append({"role": role, "content": content})
AppendTurn(conv, role, content) == Append(conv, Turn(role, content))

\* f"Recherche effectuée pour '{query}' - {len(products)} produits trouvés"
SummaryMsg(query, n) ==
    <<"R","e","c","h","e","r","c","h","e"," ","e","f","f","e","c","t","u","eacute","e"," ","p","o","u","r"," ","'">> \o query
      \o <<"'"," ","-"," ">> \o NatToChars(n)
      \o <<" ","p","r","o","d","u","i","t","s"," ","t","r","o","u","v","eacute","s">>

\* The metrics of a product render: f"{product['rating']:.1f}/5" and
\* f"{product['reviews_count']:,}" raise a TypeError on None.
Renderable(product) == product.rating.t = "num" /\ product.reviews_count.t = "num"

\* What the user types.
UserMessages ==
    {<<"U","n"," ","a","s","p","i","r","a","t","e","u","r",","," ","5","0"," ","e","u","r","o","s"," ","m","a","x">>,
     <<"J","e"," ","r","e","c","h","e","r","c","h","e"," ","u","n"," ","c","a","s","q","u","e"," ","p","o","u","r"," ","c","o","u","r","i","r">>}

\* What the assistant's completion answers.
AssistantReplies ==
    {ChatFailure,
     ChatReply(<<"Q","u","e","l"," ","e","s","t"," ","v","o","t","r","e"," ","b","u","d","g","e","t"," ","?">>),
     ChatReply(<<"P","a","r","f","a","i","t",","," ","c","h","e","r","c","h","o","n","s"," ","U","n"," ","A","s","p","i","r","a","t","e","u","r"," ","e","n","t","r","e"," ","1","0"," ","e","t"," ","1","0","0"," ","e","u","r","o","s",".","\n">>)}

\* What the context extraction answers.
ContextReplies ==
    {ContextFailure, ContextNotJson,
     ContextJson(JsonDict(<<>>)),
     ContextJson(JsonDict(<<Pair("budget", "50"), Pair("usage", "sport")>>)),
     ContextJson(JsonDict(<<Pair("budget", "100")>>)),
     ContextJson(JsonStr),
     ContextJson(JsonList(<<Pair("usage", "jeux"), NotAPair>>))}

\* What the search API answers.
SearchResponses ==
    {SearchFailure, SearchResponse(<<RawD>>), SearchResponse(<<RawA, RawD>>),
     SearchResponse(CannedAll)}

\* What the product analysis answers.
AnalysisReplies == {ChatFailure, ChatReply(<<"B","o","n"," ","c","h","o","i","x",".">>)}

\* The user events of a session the model follows.
MaxEvents == 2

\* The calls made since the user event under way: of chat_with_assistant, of
\* update_user_context, of analyze_product_conversational, of the search API
\* (outbound) and of fetch_amazon_products (answered by the cache or not).
NoCalls == [chat |-> 0, context |-> 0, analysis |-> 0, search |-> 0, fetch |-> 0]
\* What the runs of main() for the user event under way have met: the event
\* (the page's load, a message, a click on the reset button), how each
\* external call went, what the extraction and the analysis returned, and the
\* exception that ended a run.
Outcome(event) == [event |-> event, chat |-> "none", context |-> "none",
                   search |-> "none", analysis |-> "none", analysis_text |-> <<>>,
                   context_value |-> JsonDict(<<>>), crashed |-> "no"]
NoOutcome == Outcome("load")

Init ==
    /\ pc = "top"
    /\ has_session = FALSE
    /\ conversation = <<>>
    /\ turn_origin = <<>>
    /\ user_context = EmptyContext
    /\ products_shown = FALSE
    /\ user_input = NoInput
    /\ reset_clicked = FALSE
    /\ products = <<>>
    /\ idx = 0
    /\ cache = {}
    /\ calls = NoCalls
    /\ outcome = NoOutcome
    /\ search_origin = "none"
    /\ events = 0
    /\ HarnessIdle

\* The user submits a message in st.chat_input: the script runs with it, its
\* local variables fresh.
Submit(msg) ==
    /\ pc = "idle"
    /\ events < MaxEvents
    /\ pc' = "top"
    /\ user_input' = msg
    /\ reset_clicked' = FALSE
    /\ calls' = NoCalls
    /\ outcome' = Outcome("message")
    /\ events' = events + 1
    /\ products' = <<>>
    /\ idx' = 0
    /\ search_origin' = "none"
    /\ UNCHANGED <<has_session, conversation, turn_origin, user_context,
                   products_shown, cache>>
    /\ UNCHANGED harness_vars

\* The user clicks "Nouvelle conversation": the script runs with the button set.
ClickReset ==
    /\ pc = "idle"
    /\ events < MaxEvents
    /\ pc' = "top"
    /\ user_input' = NoInput
    /\ reset_clicked' = TRUE
    /\ calls' = NoCalls
    /\ outcome' = Outcome("reset")
    /\ events' = events + 1
    /\ products' = <<>>
    /\ idx' = 0
    /\ search_origin' = "none"
    /\ UNCHANGED <<has_session, conversation, turn_origin, user_context,
                   products_shown, cache>>
    /\ UNCHANGED harness_vars

\* The conversation after the session's initialisation.
SessionConversation ==
    IF has_session THEN conversation ELSE AppendTurn(<<>>, "assistant", WelcomeMsg)
SessionOrigin == IF has_session THEN turn_origin ELSE <<"welcome">>

\* The key st.cache_data files a call of fetch_amazon_products under.
CacheKey(intent) == <<intent.query, intent.min_price, intent.max_price>>

\* The top of main(), without a search: the session's initialisation, and no
\* intent in the last turn or products already shown.
RunTopNoSearch ==
    /\ pc = "top"
    /\ \E intent \in {extract_search_intent(SessionConversation)} :
          ~(intent.some /\ ~products_shown)
    /\ has_session' = TRUE
    /\ conversation' = SessionConversation
    /\ turn_origin' = SessionOrigin
    /\ user_context' = (IF has_session THEN user_context ELSE EmptyContext)
    /\ pc' = "input"
    /\ UNCHANGED <<products_shown, user_input, reset_clicked, products, idx, cache,
                   calls, outcome, search_origin, events>>
    /\ UNCHANGED harness_vars

\* What the search of main() does once fetch_amazon_products has returned
\* found: products_shown is set, and the display loop starts or, without
\* products, the warning is shown.
AfterFetch(found) ==
    /\ has_session' = TRUE
    /\ conversation' = SessionConversation
    /\ turn_origin' = SessionOrigin
    /\ user_context' = (IF has_session THEN user_context ELSE EmptyContext)
    /\ products_shown' = TRUE
    /\ products' = found
    /\ idx' = (IF found = <<>> THEN 0 ELSE 1)
    /\ pc' = (IF found = <<>> THEN "input" ELSE "display")
    /\ search_origin' = SessionOrigin[Len(SessionOrigin)]
    /\ UNCHANGED <<user_input, reset_clicked, events>>
    /\ UNCHANGED harness_vars

\* The top of main() with a search answered by the cache of st.cache_data.
RunTopCachedSearch ==
    /\ pc = "top"
    /\ \E intent \in {extract_search_intent(SessionConversation)} :
          /\ intent.some /\ ~products_shown
          /\ \E entry \in cache :
                /\ entry.key = CacheKey(intent)
                /\ AfterFetch(entry.value)
    /\ calls' = [calls EXCEPT !.fetch = @ + 1]
    /\ UNCHANGED <<cache, outcome>>

\* The top of main() with a search sent to the API, which answers response.
RunTopSearch(response) ==
    /\ pc = "top"
    /\ \E intent \in {extract_search_intent(SessionConversation)} :
          /\ intent.some /\ ~products_shown
          /\ \A entry \in cache : entry.key /= CacheKey(intent)
          /\ \E found \in {fetch_amazon_products(response, intent.min_price,
                                                 intent.max_price, DefaultNumResults)} :
                /\ AfterFetch(found)
                /\ cache' = cache \cup {[key |-> CacheKey(intent), value |-> found]}
    /\ calls' = [calls EXCEPT !.fetch = @ + 1, !.search = @ + 1]
    /\ outcome' = [outcome EXCEPT !.search = IF response.ok THEN "ok" ELSE "failed"]

\* An entry of the cache outlives its ttl.
CacheExpire ==
    /\ pc = "idle"
    /\ \E entry \in cache : cache' = cache \ {entry}
    /\ UNCHANGED <<pc, has_session, conversation, turn_origin, user_context,
                   products_shown, user_input, reset_clicked, products, idx,
                   calls, outcome, search_origin, events>>
    /\ UNCHANGED harness_vars

\* The display loop at a product whose metrics do not render: the TypeError
\* ends the run.
DisplayCrash ==
    /\ pc = "display"
    /\ ~Renderable(products[idx])
    /\ pc' = "idle"
    /\ user_input' = NoInput
    /\ reset_clicked' = FALSE
    /\ outcome' = [outcome EXCEPT !.crashed = "render"]
    /\ UNCHANGED <<has_session, conversation, turn_origin, user_context,
                   products_shown, products, idx, cache, calls, search_origin, events>>
    /\ UNCHANGED harness_vars

\* The display loop at a product: its metrics, and its analysis by a
\* completion that answers reply; after the last product the summary turn is
\* appended.
DisplayProduct(reply) ==
    /\ pc = "display"
    /\ Renderable(products[idx])
    /\ calls' = [calls EXCEPT !.analysis = @ + 1]
    /\ outcome' = [outcome EXCEPT !.analysis = IF reply.ok THEN "ok" ELSE "failed",
                                  !.analysis_text = analyze_product_conversational(reply)]
    /\ IF idx < Len(products)
       THEN /\ idx' = idx + 1
            /\ UNCHANGED <<pc, conversation, turn_origin>>
       ELSE /\ idx' = 0
            /\ pc' = "input"
            /\ \E intent \in {extract_search_intent(conversation)} :
                  conversation' = AppendTurn(conversation, "assistant",
                                             SummaryMsg(intent.query, Len(products)))
            /\ turn_origin' = Append(turn_origin, "summary")
    /\ UNCHANGED <<has_session, user_context, products_shown, user_input,
                   reset_clicked, products, cache, search_origin, events>>
    /\ UNCHANGED harness_vars

\* if user_input: without an input the run goes on to the sidebar.
NoUserInput ==
    /\ pc = "input"
    /\ user_input = NoInput
    /\ pc' = "sidebar"
    /\ UNCHANGED <<has_session, conversation, turn_origin, user_context,
                   products_shown, user_input, reset_clicked, products, idx, cache,
                   calls, outcome, search_origin, events>>
    /\ UNCHANGED harness_vars

\* if user_input: the user turn is appended, products_shown is reset, the
\* assistant answers (chat), the context is extracted (ctx) and merged, the
\* assistant turn is appended and the script reruns. A context_update that
\* dict.update refuses raises out of main() before the assistant turn.
HandleInput(chat, ctx) ==
    /\ pc = "input"
    /\ user_input /= NoInput
    /\ \E response \in {chat_with_assistant(chat)} :
       \E context_update \in {update_user_context(ctx)} :
       \E merged \in {IF JsonTruthy(context_update)
                      THEN DictUpdate(user_context, context_update)
                      ELSE [context |-> user_context, raised |-> FALSE]} :
          /\ user_context' = merged.context
          /\ conversation' =
                IF merged.raised THEN AppendTurn(conversation, "user", user_input)
                ELSE AppendTurn(AppendTurn(conversation, "user", user_input),
                                "assistant", response)
          /\ turn_origin' = IF merged.raised THEN Append(turn_origin, "user")
                            ELSE turn_origin \o <<"user", "reply">>
          /\ pc' = IF merged.raised THEN "idle" ELSE "top"
          /\ outcome' = [outcome EXCEPT
                            !.chat = IF chat.ok THEN "ok" ELSE "failed",
                            !.context = IF ~ctx.ok \/ ~ctx.parses THEN "failed"
                                        ELSE IF context_update.t = "dict" THEN "ok"
                                        ELSE "malformed",
                            !.context_value = context_update,
                            !.crashed = IF merged.raised THEN "context_update" ELSE @]
    /\ products_shown' = FALSE
    /\ user_input' = NoInput
    /\ calls' = [calls EXCEPT !.chat = @ + 1, !.context = @ + 1]
    /\ UNCHANGED <<has_session, reset_clicked, products, idx, cache, search_origin, events>>
    /\ UNCHANGED harness_vars

\* The sidebar without a click on the button: the run ends.
SidebarEnd ==
    /\ pc = "sidebar"
    /\ ~reset_clicked
    /\ pc' = "idle"
    /\ UNCHANGED <<has_session, conversation, turn_origin, user_context,
                   products_shown, user_input, reset_clicked, products, idx, cache,
                   calls, outcome, search_origin, events>>
    /\ UNCHANGED harness_vars

\* The sidebar with the button clicked: the three keys are deleted from
\* st.session_state and the script reruns.
SidebarReset ==
    /\ pc = "sidebar"
    /\ reset_clicked
    /\ has_session' = FALSE
    /\ conversation' = <<>>
    /\ turn_origin' = <<>>
    /\ user_context' = EmptyContext
    /\ products_shown' = FALSE
    /\ reset_clicked' = FALSE
    /\ pc' = "top"
    /\ UNCHANGED <<user_input, products, idx, cache, calls, outcome, search_origin, events>>
    /\ UNCHANGED harness_vars

Next ==
    \/ \E msg \in UserMessages : Submit(msg)
    \/ ClickReset
    \/ RunTopNoSearch
    \/ RunTopCachedSearch
    \/ \E response \in SearchResponses : RunTopSearch(response)
    \/ CacheExpire
    \/ DisplayCrash
    \/ \E reply \in AnalysisReplies : DisplayProduct(reply)
    \/ NoUserInput
    \/ \E chat \in AssistantReplies, ctx \in ContextReplies : HandleInput(chat, ctx)
    \/ SidebarEnd
    \/ SidebarReset

Spec == Init /\ [][Next]_vars

-----------------------------------------------------------------------------
(* The session's properties.                                                *)

\* C1, as the claim states it: from a message's submit on, at most one
\* chat-completion call (those of chat_with_assistant, update_user_context
\* and analyze_product_conversational together) and at most one product search.
C1_AsClaimed ==
    outcome.event = "message" =>
        /\ calls.chat + calls.context + calls.analysis <= 1
        /\ calls.fetch <= 1

\* C1, amended: handling a message calls chat_with_assistant at most once and
\* update_user_context at most once, searches at most once in each of the two
\* runs of main() it spans (every search not answered by the cache is one
\* outbound call), and analyses at most num_results products per search.
C1_Amended ==
    outcome.event = "message" =>
        /\ calls.chat <= 1
        /\ calls.context <= 1
        /\ calls.search <= calls.fetch
        /\ calls.fetch <= 2
        /\ calls.fetch <= 1 + calls.chat
        /\ calls.analysis <= DefaultNumResults * calls.fetch

\* A message answered, its context extracted, its search sent, and all of the
\* num_results products analysed.
C1_Witness ==
    /\ outcome.event = "message"
    /\ calls.chat = 1
    /\ calls.context = 1
    /\ calls.search = 1
    /\ calls.analysis = DefaultNumResults
    /\ pc = "idle"

IsPrefix(s, t) == Len(s) <= Len(t) /\ SubSeq(t, 1, Len(s)) = s

\* C2: every step of main() but the reset keeps the turns stored so far, in
\* their order, and at most appends to them; the reset leaves no turn, no user
\* context and products_shown unset.
C2_AppendOnly ==
    [][IF pc = "sidebar" /\ reset_clicked
       THEN /\ conversation' = <<>>
            /\ user_context' = EmptyContext
            /\ ~products_shown'
            /\ ~has_session'
       ELSE IsPrefix(conversation, conversation')]_vars

\* A conversation that grew by a message and its reply, was reset, and starts
\* again from the welcome message alone.
C2_Witness ==
    /\ outcome.event = "reset"
    /\ events = MaxEvents
    /\ pc = "idle"
    /\ has_session
    /\ conversation = <<Turn("assistant", WelcomeMsg)>>
    /\ cache /= {}

\* C3, as the claim states it: a failed search gives no product, a failed chat
\* completion gives the fallback reply, appended as the assistant turn, a
\* failed extraction gives the empty mapping, a failed analysis gives the fixed
\* text, and no exception ends a run of main().
C3_AsClaimed ==
    /\ outcome.search = "failed" => products = <<>>
    /\ outcome.chat = "failed" =>
          /\ conversation /= <<>>
          /\ conversation[Len(conversation)] = Turn("assistant", FallbackReply)
    /\ outcome.context = "failed" => outcome.context_value = JsonDict(<<>>)
    /\ outcome.analysis = "failed" => outcome.analysis_text = AnalysisFallback
    /\ outcome.crashed /= "context_update"

\* C9, as the claim states it: every search is for an intent taken from a
\* reply of chat_with_assistant.
C9_AsClaimed == search_origin \in {"none", "reply"}

\* The pairs dict.update takes from what the extraction returned.
RECURSIVE LeadingPairs(_)
LeadingPairs(items) ==
    IF items = <<>> \/ ~Head(items).pair THEN <<>>
    ELSE <<Head(items)>> \o LeadingPairs(Tail(items))

Returned(value) == IF value.t = "str" THEN <<>> ELSE LeadingPairs(value.items)

\* C10: the reset empties the user context; handling a message sets the keys
\* the extraction returned to the values returned (the last one of a key) and
\* leaves every other key as it was; every other step leaves the context as
\* it was; no step but the reset removes a key.
C10_ContextOnlyGrows ==
    [][IF pc = "sidebar" /\ reset_clicked THEN user_context' = EmptyContext
       ELSE /\ \A k \in ContextKeys : user_context[k] /= Unset => user_context'[k] /= Unset
            /\ ~(pc = "input" /\ user_input /= NoInput) => user_context' = user_context
            /\ (pc = "input" /\ user_input /= NoInput) =>
                  \E r \in {Returned(outcome'.context_value)} :
                  \A k \in ContextKeys :
                     \E at \in {{i \in 1..Len(r) : r[i].k = k}} :
                        user_context'[k] = IF at = {} THEN user_context[k]
                                           ELSE r[Greatest(at)].v]_vars

\* A context built by two messages: usage from the first, budget overwritten
\* by the second.
C10_Witness ==
    /\ user_context["budget"] = "100"
    /\ user_context["usage"] = "sport"
    /\ events = MaxEvents

\* The session's variables while a pure function is under test.
MainIdle ==
    /\ pc = "off"
    /\ has_session = FALSE
    /\ conversation = <<>>
    /\ turn_origin = <<>>
    /\ user_context = EmptyContext
    /\ products_shown = FALSE
    /\ user_input = NoInput
    /\ reset_clicked = FALSE
    /\ products = <<>>
    /\ idx = 0
    /\ cache = {}
    /\ calls = NoCalls
    /\ outcome = NoOutcome
    /\ search_origin = "none"
    /\ events = 0

-----------------------------------------------------------------------------
(* extract_price under test: price texts built from a currency prefix, an   *)
(* integer part with or without a thousands group, a decimal part and a     *)
(* suffix, each with the number it denotes; and the unparseable inputs.     *)

PriceCurrencies == {<<>>, <<"$">>, <<"euro"," ">>, <<"E","U","R"," ">>}
PriceHeads == {<<"1">>, <<"5">>, <<"1","2">>}
\* A thousands group: none, or 299 after a separator.
PriceThousands == {"none", ",", ".", " "}
\* A decimal part: none, or a separator and the fraction digits.
PriceDecimals == {<<>>, <<".","9","9">>, <<",","9","9">>, <<".","5">>, <<",","5">>}
PriceSuffixes == {<<>>, <<" ","euro">>}

ThousandsText(th) ==
    CASE th = "none" -> <<>>
      [] th = "," -> <<",","2","9","9">>
      [] th = "." -> <<".","2","9","9">>
      [] th = " " -> <<" ","2","9","9">>

\* The price texts whose number is not in doubt: a comma groups thousands only
\* before a decimal point ('1,299.99'), a period only before a decimal comma
\* ('1.299,99'); a space groups them anywhere ('1 299,99').
WellFormedPrice(th, dec) ==
    \/ th \in {"none", " "}
    \/ dec /= <<>> /\ th /= dec[1]

\* The number the text denotes, in thousandths.
DenotedPrice(head, th, dec) ==
    LET int == IF th = "none" THEN DigitsToNat(head)
               ELSE DigitsToNat(head \o <<"2","9","9">>)
        frac == IF dec = <<>> THEN <<>> ELSE Tail(dec)
    IN  int * Milli + DigitsToNat(SubSeq(frac \o <<"0","0","0">>, 1, 3))

WellFormedPriceTexts ==
    {[value |-> PyStr(cur \o head \o ThousandsText(th) \o dec \o suf),
      denoted |-> DenotedPrice(head, th, dec),
      thousands |-> th /= "none",
      parseable |-> TRUE] :
        <<cur, head, th, dec, suf>> \in
            {x \in PriceCurrencies \X PriceHeads \X PriceThousands
                   \X PriceDecimals \X PriceSuffixes : WellFormedPrice(x[3], x[4])}}

Unparseable(v) == [value |-> v, denoted |-> 0, thousands |-> FALSE, parseable |-> FALSE]

\* Empty or unparseable inputs: '', None, [], a text without digits, a list
\* holding one.
UnparseablePrices ==
    {Unparseable(PyStr(<<>>)), Unparseable(PyNone), Unparseable(PyList(<<>>)),
     Unparseable(PyStr(<<"a","b","c">>)), Unparseable(PyStr(<<"euro">>)),
     Unparseable(PyList(<<PyNone>>)), Unparseable(PyList(<<PyStr(<<>>)>>)),
     Unparseable(PyNum(0, <<"0">>))}

\* The same texts as the one element of a list, as the API also sends them.
ListedPrices ==
    {[value |-> PyList(<<p.value>>), denoted |-> p.denoted,
      thousands |-> p.thousands, parseable |-> TRUE] :
        p \in {q \in WellFormedPriceTexts : q.value.s[1] = "$"}}

PriceInputs == WellFormedPriceTexts \cup UnparseablePrices \cup ListedPrices

PriceInit ==
    /\ MainIdle
    /\ h_fn = "extract_price"
    /\ h_in \in PriceInputs
    /\ h_out = <<>>
    /\ h_done = FALSE

ApplyExtractPrice ==
    /\ h_fn = "extract_price"
    /\ ~h_done
    /\ h_out' = extract_price(h_in.value)
    /\ h_done' = TRUE
    /\ UNCHANGED <<h_fn, h_in>>
    /\ UNCHANGED main_vars

PriceNext == ApplyExtractPrice

SpecPrice == PriceInit /\ [][PriceNext]_vars

\* C4: extract_price returns the number a price text denotes, thousands
\* separators included ('1,299.99' is 1299.99), and 0.0 for an empty or
\* unparseable input.
C4_AsClaimed ==
    (h_fn = "extract_price" /\ h_done) =>
        h_out = (IF h_in.parseable THEN h_in.denoted ELSE 0)

-----------------------------------------------------------------------------
(* extract_search_intent under test: a last turn built from a prefix, a     *)
(* trigger phrase, a noun phrase X, a budget phrase and a suffix, after a   *)
(* history of earlier turns.                                                *)

\* What comes before the trigger phrase, with whether it holds a match of
\* cherchon(s) of its own and the budget phrase it holds, if any.
IntentPrefixes ==
    {[text |-> <<>>, trigger |-> FALSE, budget |-> <<>>],
     [text |-> <<"S","u","p","e","r"," ","!"," ">>, trigger |-> FALSE, budget |-> <<>>],
     [text |-> <<"T","r","egrave","s"," ","b","o","n"," ","c","h","o","i","x",","," ">>, trigger |-> FALSE, budget |-> <<>>],
     [text |-> <<"B","u","d","g","e","t"," ","e","n","t","r","e"," ","5"," ","e","t"," ","8"," ","?"," ">>, trigger |-> FALSE, budget |-> <<5, 8>>],
     [text |-> <<"N","o","u","s"," ","c","h","e","r","c","h","o","n","s"," ","v","i","t","e","."," ">>, trigger |-> TRUE, budget |-> <<>>]}

\* The trigger phrases as the assistant writes them ("none": no trigger).
IntentTriggers ==
    {[name |-> "cherchons", text |-> <<"c","h","e","r","c","h","o","n","s">>],
     [name |-> "Cherchons", text |-> <<"C","h","e","r","c","h","o","n","s">>],
     [name |-> "cherchon", text |-> <<"c","h","e","r","c","h","o","n">>],
     [name |-> "recherche", text |-> <<"r","e","c","h","e","r","c","h","e">>],
     [name |-> "regardons", text |-> <<"r","e","g","a","r","d","o","n","s">>],
     [name |-> "none", text |-> <<>>]}

\* The noun phrases X; plain when X holds no period, no line break and no space
\* followed by entre, dans, à or pour.
NounPhrases ==
    {[text |-> <<"a","s","p","i","r","a","t","e","u","r">>, plain |-> TRUE],
     [text |-> <<"U","n"," ","A","s","p","i","r","a","t","e","u","r"," ","R","o","b","o","t">>, plain |-> TRUE],
     [text |-> <<"t","a","p","i","s"," ","d","e"," ","y","o","g","a">>, plain |-> TRUE],
     [text |-> <<"c","a","s","q","u","e"," ","p","o","u","r"," ","l","e"," ","s","p","o","r","t">>, plain |-> FALSE],
     [text |-> <<"s","a","c"," ","agrave"," ","d","o","s">>, plain |-> FALSE],
     [text |-> <<"i","p","h","o","n","e"," ","5",".","5">>, plain |-> FALSE],
     [text |-> <<"l","i","t"," ","p","l","i","a","n","t"," ","d","a","n","s"," ","u","n"," ","s","a","c">>, plain |-> FALSE],
     [text |-> <<"t","a","p","i","s","\n","d","e"," ","y","o","g","a">>, plain |-> FALSE]}

Entre10Et50 == <<" ","e","n","t","r","e"," ","1","0"," ","e","t"," ","5","0">>

\* The budget phrase after X, with the two integers it writes.
BudgetPhrases ==
    {[text |-> <<>>, budget |-> <<>>],
     [text |-> Entre10Et50, budget |-> <<10, 50>>],
     [text |-> <<" ","e","n","t","r","e"," ","1","0"," ","agrave"," ","5","0">>, budget |-> <<10, 50>>],
     [text |-> <<" ","e","n","t","r","e"," ","1","0","-","5","0">>, budget |-> <<10, 50>>],
     [text |-> <<" ","e","n","t","r","e"," ","5","0"," ","e","t"," ","1","0">>, budget |-> <<50, 10>>],
     [text |-> <<" ","E","N","T","R","E"," ","1","0"," ","E","T"," ","5","0">>, budget |-> <<10, 50>>],
     [text |-> <<" ","e","n","t","r","e"," "," ","2","0","0"," "," ","-"," "," ","1","5","0","0">>, budget |-> <<200, 1500>>]}

IntentSuffixes == {<<>>, <<" ","e","u","r","o","s",".">>, <<" ","?","\n">>}

\* The turns before the last one.
IntentHistories == {<<>>, <<Turn("assistant", <<"c","h","e","r","c","h","o","n","s"," ","v","e","l","o"," ","e","n","t","r","e"," ","1"," ","e","t"," ","2">>)>>}

IntentMessage(pre, trig, x, bud, suf) ==
    pre.text \o trig.text \o (IF trig.name = "none" THEN <<>> ELSE <<" ">>)
             \o x.text \o bud.text \o suf

IntentInputs ==
    {[conv |-> hist \o <<Turn(role, IntentMessage(pre, trig, x, bud, suf))>>,
      prefix |-> pre, trigger |-> trig.name, x |-> x, phrase |-> bud.text,
      budget |-> IF pre.budget /= <<>> THEN pre.budget ELSE bud.budget] :
        hist \in IntentHistories, role \in {"assistant"}, pre \in IntentPrefixes,
        trig \in IntentTriggers, x \in NounPhrases, bud \in BudgetPhrases,
        suf \in IntentSuffixes}
    \cup {[conv |-> <<>>, prefix |-> [text |-> <<>>, trigger |-> FALSE, budget |-> <<>>],
           trigger |-> "none", x |-> [text |-> <<>>, plain |-> TRUE],
           phrase |-> <<>>, budget |-> <<>>]}

IntentInit ==
    /\ MainIdle
    /\ h_fn = "extract_search_intent"
    /\ h_in \in IntentInputs
    /\ h_out = <<>>
    /\ h_done = FALSE

ApplyExtractSearchIntent ==
    /\ h_fn = "extract_search_intent"
    /\ ~h_done
    /\ h_out' = extract_search_intent(h_in.conv)
    /\ h_done' = TRUE
    /\ UNCHANGED <<h_fn, h_in>>
    /\ UNCHANGED main_vars

IntentNext == ApplyExtractSearchIntent

SpecIntent == IntentInit /\ [][IntentNext]_vars

C8_BudgetOrDefaults ==
    (h_fn = "extract_search_intent" /\ h_done /\ h_out.some) =>
        IF h_in.budget = <<>>
        THEN h_out.min_price = 0 /\ h_out.max_price = 1000 * Milli
        ELSE h_out.min_price = h_in.budget[1] * Milli
             /\ h_out.max_price = h_in.budget[2] * Milli

\* C8's case: a budget written "entre 50 et 10" after the query.
C8_Witness ==
    /\ h_fn = "extract_search_intent" /\ h_done /\ h_out.some
    /\ h_in.budget = <<50, 10>>
    /\ h_out.min_price = 50 * Milli

-----------------------------------------------------------------------------
(* fetch_amazon_products under test: responses of up to MaxResults organic  *)
(* results, a canned response of six, and a failed request.                 *)

\* The longest response the harness enumerates.
MaxResults == 2

RECURSIVE SeqsUpTo(_, _)
SeqsUpTo(S, n) ==
    IF n = 0 THEN {<<>>}
    ELSE Only({shorter \cup {Append(q, x) : q \in {r \in shorter : Len(r) = n - 1}, x \in S} :
               shorter \in {SeqsUpTo(S, n - 1)}})

FetchBands == {<<0, 1000>>, <<10, 50>>}
FetchNumResults == {2, DefaultNumResults}

FetchInputs ==
    {[response |-> r, min_price |-> band[1] * Milli, max_price |-> band[2] * Milli,
      num_results |-> n] :
        r \in {SearchFailure} \cup {SearchResponse(q) :
                  q \in SeqsUpTo(RawProducts, MaxResults) \cup {CannedSix, CannedAll}},
        band \in FetchBands, n \in FetchNumResults}

FetchInit ==
    /\ MainIdle
    /\ h_fn = "fetch_amazon_products"
    /\ h_in \in FetchInputs
    /\ h_out = <<>>
    /\ h_done = FALSE

ApplyFetchAmazonProducts ==
    /\ h_fn = "fetch_amazon_products"
    /\ ~h_done
    /\ h_out' = fetch_amazon_products(h_in.response, h_in.min_price, h_in.max_price,
                                      h_in.num_results)
    /\ h_done' = TRUE
    /\ UNCHANGED <<h_fn, h_in>>
    /\ UNCHANGED main_vars

FetchNext == ApplyFetchAmazonProducts

SpecFetch == FetchInit /\ [][FetchNext]_vars

\* The organic results of the input whose normalized price lies in the band.
InBandTitles ==
    {i \in 1..Len(h_in.response.organic_results) :
        \E p \in {extract_price(PriceField(h_in.response.organic_results[i]))} :
            h_in.min_price <= p /\ p <= h_in.max_price}

\* C6 as stated: for any successful response the result is exactly the organic
\* results in the price band (as many as num_results allows), none outside the
\* band, none followed by one with a larger (rating, reviews_count) pair, each
\* with its normalized price string.
C6_AsClaimed ==
    (h_fn = "fetch_amazon_products" /\ h_done /\ h_in.response.ok) =>
        /\ Len(h_out) = (IF Cardinality(InBandTitles) <= h_in.num_results
                         THEN Cardinality(InBandTitles) ELSE h_in.num_results)
        /\ \A k \in 1..Len(h_out) :
              /\ h_in.min_price <= h_out[k].price /\ h_out[k].price <= h_in.max_price
              /\ \E i \in InBandTitles : h_in.response.organic_results[i].title = h_out[k].title
              /\ h_out[k].price_str = FormatPrice(h_out[k].price)
        /\ \A k \in 1..(Len(h_out) - 1) :
              /\ ~KeyRaises(h_out[k], h_out[k + 1])
              /\ ~KeyLess(h_out[k], h_out[k + 1])

\* Whether the API field parses to a number: a number, or a text float() takes.
RatingParses(v) == v.t = "num" \/ (v.t = "str" /\ IsFloatText(FirstToken(v.s)))

\* C7 as stated: every returned product has a non-negative price, and a rating
\* and a reviews_count that are numbers, zero when the API field is absent or
\* does not parse (a non-numeric text, null).
C7_AsClaimed ==
    (h_fn = "fetch_amazon_products" /\ h_done) =>
        \A k \in 1..Len(h_out) :
            /\ h_out[k].price >= 0
            /\ h_out[k].rating.t = "num"
            /\ h_out[k].reviews_count.t = "num"
            /\ \A i \in 1..Len(h_in.response.organic_results) :
                  LET raw == h_in.response.organic_results[i]
                  IN  raw.title = h_out[k].title =>
                        /\ ~RatingParses(raw.rating) => h_out[k].rating.n = 0
                        /\ raw.ratings_total.t \in {"absent", "null"}
                              => h_out[k].reviews_count.n = 0

=============================================================================
